---- MODULE Spec2Model ----
(***************************************************************************)
(* ControlledWidget (src/st_control/controllers.py): a proxy around one    *)
(* entry of Streamlit's st.session_state that resets the entry to a        *)
(* default when trigger fields change or a trigger predicate holds.        *)
(*                                                                         *)
(* The model keeps the session mapping, the two registries the class       *)
(* stores inside it, the attributes of the current instance, the position  *)
(* of the page script relative to the "with" block and the last call made  *)
(* on the instance with its outcome.  History variables (captured, wrote_in_scope) record what    *)
(* the session looked like when the snapshot was last taken; no action     *)
(* reads them.                                                             *)
(***************************************************************************)
EXTENDS Integers, Sequences, FiniteSets, TLC

\* ---------------------------------------------------------------- bounds
\* longest trigger_fields list the page script passes
MaxTriggerFields == 2

\* ------------------------------------------------------------ value space
\* a key that is not in st.session_state
Absent == "<absent>"
\* Python's None, as a value a key can hold and as the default of .get()
NoneVal == "<None>"
\* the controlled key and the keys of the widgets that may trigger it
WidgetKeys == {"my_text_input"}
FieldKeys == {"field1", "field2"}
Keys == WidgetKeys \cup FieldKeys
\* values the UI stores into the session
Values == {NoneVal, "reset"}
\* default_value arguments the page script passes
Defaults == {"initial value", "reset"}
\* trigger_func arguments: None or the page script's lambda
NoFunc == "None"
TriggerFuncs == {"field1_is_reset"}

\* trigger_fields: Optional[List[str]]
NoFields == [none |-> TRUE, list |-> <<>>]
FieldsOf(l) == [none |-> FALSE, list |-> l]
\* the lists the page script passes: field keys in the order the page creates
\* them, each at most once (the class only uses the list as the key set of a
\* dict), or the controlled key itself
KeyOrder == <<"field1", "field2">>
ListOf(S) == SelectSeq(KeyOrder, LAMBDA k : k \in S)
TriggerFieldArgs ==
    {NoFields}
    \cup {FieldsOf(ListOf(S)) :
            S \in {T \in SUBSET FieldKeys : Cardinality(T) <= MaxTriggerFields}}
    \cup {FieldsOf(<<k>>) : k \in WidgetKeys}

Range(s) == {s[i] : i \in DOMAIN s}
EmptyMap == [x \in {} |-> Absent]

VARIABLES session_state, default_values, controlled_widgets, self, pc, last,
          captured, wrote_in_scope

vars == <<session_state, default_values, controlled_widgets, self, pc, last,
          captured, wrote_in_scope>>

\* ------------------------------------------------------- session mapping
\* key in st.session_state
Contains(ss, k) == ss[k] # Absent
\* st.session_state.get(k): None when the key is absent
Get(ss, k) == IF ss[k] = Absent THEN NoneVal ELSE ss[k]
\* st.session_state[k] = v
Put(ss, k, v) == [ss EXCEPT ![k] = v]

\* `self.trigger_fields or []`
fields_or_empty(tf) == IF tf.none THEN <<>> ELSE tf.list

\* the stored dictionary built with subscripts and a marker for missing keys
\* instead of .get()
tracked_trigger_fields_raw(ss, tf) ==
    [f \in Range(fields_or_empty(tf)) |-> ss[f]]

\* the dictionary __update_trigger_fields_session_state stores for the key
tracked_trigger_fields(ss, tf) ==
    [f \in Range(fields_or_empty(tf)) |-> Get(ss, f)]

\* __update_trigger_fields_session_state that keeps an entry the key already
\* has (setdefault where the code assigns)
update_trigger_fields_keeps_existing(cw, ss, w) ==
    [exists |-> cw.exists,
     d |-> [k \in DOMAIN cw.d \cup {w.key} |->
              IF k = w.key /\ k \notin DOMAIN cw.d
              THEN tracked_trigger_fields(ss, w.trigger_fields)
              ELSE cw.d[k]]]

\* __update_trigger_fields_session_state: registry with the key's entry replaced
update_trigger_fields_session_state(cw, ss, w) ==
    [exists |-> cw.exists,
     d |-> [k \in DOMAIN cw.d \cup {w.key} |->
              IF k = w.key THEN tracked_trigger_fields(ss, w.trigger_fields)
              ELSE cw.d[k]]]

\* the trigger_field_values property
trigger_field_values(cw, w) == cw.d[w.key]

\* the page script's lambda: st.session_state['field1'] == 'reset'
\* (subscripting an absent key raises KeyError)
call_trigger_func(fn, ss) ==
    IF ~Contains(ss, "field1") THEN "KeyError"
    ELSE IF ss["field1"] = "reset" THEN "True" ELSE "False"

\* has_triggered with all() where the loop means any()
has_triggered_all_fields(w, ss, cw) ==
    IF w.trigger_func # NoFunc THEN call_trigger_func(w.trigger_func, ss)
    ELSE IF ~w.trigger_fields.none THEN
        IF ~(cw.exists /\ w.key \in DOMAIN cw.d) THEN "KeyError"
        ELSE IF \A f \in DOMAIN trigger_field_values(cw, w) :
                    Get(ss, f) # trigger_field_values(cw, w)[f]
             THEN "True" ELSE "False"
    ELSE "True"

\* has_triggered whose loop returns on its first item, changed or not
has_triggered_first_field(w, ss, cw) ==
    IF w.trigger_func # NoFunc THEN call_trigger_func(w.trigger_func, ss)
    ELSE IF ~w.trigger_fields.none THEN
        IF ~(cw.exists /\ w.key \in DOMAIN cw.d) THEN "KeyError"
        ELSE LET items == ListOf(DOMAIN trigger_field_values(cw, w) \cap FieldKeys)
                          \o ListOf(DOMAIN trigger_field_values(cw, w) \ FieldKeys)
             IN  IF items # <<>> /\ Get(ss, items[1]) # trigger_field_values(cw, w)[items[1]]
                 THEN "True" ELSE "False"
    ELSE "True"

\* has_triggered that looks at trigger_fields before trigger_func
has_triggered_fields_first(w, ss, cw) ==
    IF ~w.trigger_fields.none THEN
        IF ~(cw.exists /\ w.key \in DOMAIN cw.d) THEN "KeyError"
        ELSE IF \E f \in DOMAIN trigger_field_values(cw, w) :
                    Get(ss, f) # trigger_field_values(cw, w)[f]
             THEN "True" ELSE "False"
    ELSE IF w.trigger_func # NoFunc THEN call_trigger_func(w.trigger_func, ss)
    ELSE "True"

\* has_triggered that reports no trigger when nothing is configured
has_triggered_fail_closed(w, ss, cw) ==
    IF w.trigger_func # NoFunc THEN call_trigger_func(w.trigger_func, ss)
    ELSE IF ~w.trigger_fields.none THEN
        IF ~(cw.exists /\ w.key \in DOMAIN cw.d) THEN "KeyError"
        ELSE IF \E f \in DOMAIN trigger_field_values(cw, w) :
                    Get(ss, f) # trigger_field_values(cw, w)[f]
             THEN "True" ELSE "False"
    ELSE "False"

\* has_triggered: "True", "False" or the error the call ends in
has_triggered(w, ss, cw) ==
    IF w.trigger_func # NoFunc THEN call_trigger_func(w.trigger_func, ss)
    ELSE IF ~w.trigger_fields.none THEN
        IF ~(cw.exists /\ w.key \in DOMAIN cw.d) THEN "KeyError"
        ELSE IF \E f \in DOMAIN trigger_field_values(cw, w) :
                    Get(ss, f) # trigger_field_values(cw, w)[f]
             THEN "True" ELSE "False"
    ELSE "True"

\* history: the session entries (Absent kept apart from None) of the list the
\* snapshot was last taken from, as they were at that moment
Capture(ss, tf) == [f \in Range(fields_or_empty(tf)) |-> ss[f]]

\* the last call on the instance and what it returned or raised; NoCall after
\* a step of the UI.  For a construction, case tells what the constructor
\* found: "fresh" (key in neither the session nor the registry), "seeded" (key
\* in the session only) or "kept" (key already in the registry).
Called(call, r) == [call |-> call, ret |-> r, case |-> "-"]
Constructed(case) == [call |-> "__init__", ret |-> "None", case |-> case]
NoCall == Called("none", "None")

NoInstance ==
    [exists |-> FALSE, key |-> "my_text_input", default_value |-> "initial value",
     trigger_fields |-> NoFields, trigger_func |-> NoFunc]

Init ==
    /\ session_state = [k \in Keys |-> Absent]
    /\ default_values = [exists |-> FALSE, d |-> EmptyMap]
    /\ controlled_widgets = [exists |-> FALSE, d |-> EmptyMap]
    /\ self = NoInstance
    /\ pc = "idle"
    /\ last = NoCall
    /\ captured = EmptyMap
    /\ wrote_in_scope = FALSE

\* the constructor without the "if key not in st.session_state" assignment
construct_without_default(key, default_value, trigger_fields, trigger_func) ==
    LET w == [exists |-> TRUE, key |-> key, default_value |-> default_value,
              trigger_fields |-> trigger_fields, trigger_func |-> trigger_func]
        ss1 == session_state
        cw1 == [exists |-> TRUE, d |-> controlled_widgets.d]
        seed == key \notin DOMAIN cw1.d
    IN  /\ pc = "idle"
        /\ self' = w
        /\ session_state' = ss1
        /\ default_values' =
             [exists |-> TRUE,
              d |-> [k \in DOMAIN default_values.d \cup {key} |->
                       IF k = key THEN default_value ELSE default_values.d[k]]]
        /\ controlled_widgets' =
             IF seed THEN update_trigger_fields_session_state(cw1, ss1, w) ELSE cw1
        /\ captured' = IF seed THEN Capture(ss1, trigger_fields) ELSE captured
        /\ last' = Constructed(IF ~seed THEN "kept"
                                ELSE IF Contains(session_state, key) THEN "seeded"
                                ELSE "fresh")
        /\ UNCHANGED <<pc, wrote_in_scope>>

\* the constructor seeding the snapshot on every construction
construct_always_seeds(key, default_value, trigger_fields, trigger_func) ==
    LET w == [exists |-> TRUE, key |-> key, default_value |-> default_value,
              trigger_fields |-> trigger_fields, trigger_func |-> trigger_func]
        ss1 == IF ~Contains(session_state, key)
               THEN Put(session_state, key, default_value) ELSE session_state
        cw1 == [exists |-> TRUE, d |-> controlled_widgets.d]
        seed == TRUE
    IN  /\ pc = "idle"
        /\ self' = w
        /\ session_state' = ss1
        /\ default_values' =
             [exists |-> TRUE,
              d |-> [k \in DOMAIN default_values.d \cup {key} |->
                       IF k = key THEN default_value ELSE default_values.d[k]]]
        /\ controlled_widgets' =
             IF seed THEN update_trigger_fields_session_state(cw1, ss1, w) ELSE cw1
        /\ captured' = IF seed THEN Capture(ss1, trigger_fields) ELSE captured
        /\ last' = Constructed(IF key \in DOMAIN cw1.d THEN "kept"
                                ELSE IF Contains(session_state, key) THEN "seeded"
                                ELSE "fresh")
        /\ UNCHANGED <<pc, wrote_in_scope>>

\* the constructor assigning default_value whether or not the key has a value
construct_overwrites_value(key, default_value, trigger_fields, trigger_func) ==
    LET w == [exists |-> TRUE, key |-> key, default_value |-> default_value,
              trigger_fields |-> trigger_fields, trigger_func |-> trigger_func]
        ss1 == Put(session_state, key, default_value)
        cw1 == [exists |-> TRUE, d |-> controlled_widgets.d]
        seed == key \notin DOMAIN cw1.d
    IN  /\ pc = "idle"
        /\ self' = w
        /\ session_state' = ss1
        /\ default_values' =
             [exists |-> TRUE,
              d |-> [k \in DOMAIN default_values.d \cup {key} |->
                       IF k = key THEN default_value ELSE default_values.d[k]]]
        /\ controlled_widgets' =
             IF seed THEN update_trigger_fields_session_state(cw1, ss1, w) ELSE cw1
        /\ captured' = IF seed THEN Capture(ss1, trigger_fields) ELSE captured
        /\ last' = Constructed(IF ~seed THEN "kept"
                                ELSE IF Contains(session_state, key) THEN "seeded"
                                ELSE "fresh")
        /\ UNCHANGED <<pc, wrote_in_scope>>

\* the constructor recording default_value only for a key the registry lacks
construct_keeps_first_default(key, default_value, trigger_fields, trigger_func) ==
    LET w == [exists |-> TRUE, key |-> key, default_value |-> default_value,
              trigger_fields |-> trigger_fields, trigger_func |-> trigger_func]
        ss1 == IF ~Contains(session_state, key)
               THEN Put(session_state, key, default_value) ELSE session_state
        cw1 == [exists |-> TRUE, d |-> controlled_widgets.d]
        seed == key \notin DOMAIN cw1.d
    IN  /\ pc = "idle"
        /\ self' = w
        /\ session_state' = ss1
        /\ default_values' =
             [exists |-> TRUE,
              d |-> [k \in DOMAIN default_values.d \cup {key} |->
                       IF k = key /\ k \notin DOMAIN default_values.d
                       THEN default_value ELSE default_values.d[k]]]
        /\ controlled_widgets' =
             IF seed THEN update_trigger_fields_session_state(cw1, ss1, w) ELSE cw1
        /\ captured' = IF seed THEN Capture(ss1, trigger_fields) ELSE captured
        /\ last' = Constructed(IF ~seed THEN "kept"
                                ELSE IF Contains(session_state, key) THEN "seeded"
                                ELSE "fresh")
        /\ UNCHANGED <<pc, wrote_in_scope>>

\* the constructor creating the registry but leaving the snapshot to reset()
\* and __exit__
construct_never_seeds(key, default_value, trigger_fields, trigger_func) ==
    LET w == [exists |-> TRUE, key |-> key, default_value |-> default_value,
              trigger_fields |-> trigger_fields, trigger_func |-> trigger_func]
        ss1 == IF ~Contains(session_state, key)
               THEN Put(session_state, key, default_value) ELSE session_state
        cw1 == [exists |-> TRUE, d |-> controlled_widgets.d]
        seed == key \notin DOMAIN cw1.d
    IN  /\ pc = "idle"
        /\ self' = w
        /\ session_state' = ss1
        /\ default_values' =
             [exists |-> TRUE,
              d |-> [k \in DOMAIN default_values.d \cup {key} |->
                       IF k = key THEN default_value ELSE default_values.d[k]]]
        /\ controlled_widgets' = cw1
        /\ captured' = captured
        /\ last' = Constructed(IF ~seed THEN "kept"
                                ELSE IF Contains(session_state, key) THEN "seeded"
                                ELSE "fresh")
        /\ UNCHANGED <<pc, wrote_in_scope>>

\* ControlledWidget(key, default_value, trigger_fields, trigger_func)
construct(key, default_value, trigger_fields, trigger_func) ==
    LET w == [exists |-> TRUE, key |-> key, default_value |-> default_value,
              trigger_fields |-> trigger_fields, trigger_func |-> trigger_func]
        ss1 == IF ~Contains(session_state, key)
               THEN Put(session_state, key, default_value) ELSE session_state
        cw1 == [exists |-> TRUE, d |-> controlled_widgets.d]
        seed == key \notin DOMAIN cw1.d
    IN  /\ pc = "idle"
        /\ self' = w
        /\ session_state' = ss1
        /\ default_values' =
             [exists |-> TRUE,
              d |-> [k \in DOMAIN default_values.d \cup {key} |->
                       IF k = key THEN default_value ELSE default_values.d[k]]]
        /\ controlled_widgets' =
             IF seed THEN update_trigger_fields_session_state(cw1, ss1, w) ELSE cw1
        /\ captured' = IF seed THEN Capture(ss1, trigger_fields) ELSE captured
        /\ last' = Constructed(IF ~seed THEN "kept"
                                ELSE IF Contains(session_state, key) THEN "seeded"
                                ELSE "fresh")
        /\ UNCHANGED <<pc, wrote_in_scope>>

\* set_trigger_fields that updates the stored dictionary in place, so entries
\* of fields no longer listed stay
set_trigger_fields_merges(trigger_fields) ==
    LET w == [self EXCEPT !.trigger_fields = trigger_fields]
        old == trigger_field_values(controlled_widgets, self)
        new == tracked_trigger_fields(session_state, trigger_fields)
        merged == [f \in DOMAIN old \cup DOMAIN new |->
                     IF f \in DOMAIN new THEN new[f] ELSE old[f]]
    IN  /\ self.exists
        /\ pc # "raised"
        /\ self' = w
        /\ controlled_widgets' =
             [controlled_widgets EXCEPT !.d[self.key] = merged]
        /\ captured' = Capture(session_state, trigger_fields)
        /\ last' = Called("set_trigger_fields", "None")
        /\ UNCHANGED <<session_state, default_values, pc, wrote_in_scope>>

\* set_trigger_fields(trigger_fields)
set_trigger_fields(trigger_fields) ==
    LET w == [self EXCEPT !.trigger_fields = trigger_fields]
    IN  /\ self.exists
        /\ pc # "raised"
        /\ self' = w
        /\ controlled_widgets' =
             update_trigger_fields_session_state(controlled_widgets, session_state, w)
        /\ captured' = Capture(session_state, trigger_fields)
        /\ last' = Called("set_trigger_fields", "None")
        /\ UNCHANGED <<session_state, default_values, pc, wrote_in_scope>>

\* set_trigger_func(trigger_func)
set_trigger_func(trigger_func) ==
    /\ self.exists
    /\ pc # "raised"
    /\ self' = [self EXCEPT !.trigger_func = trigger_func]
    /\ last' = Called("set_trigger_func", "None")
    /\ UNCHANGED <<session_state, default_values, controlled_widgets, pc,
                   captured, wrote_in_scope>>

\* reset() that only overwrites the value
reset_without_recapture ==
    LET ss1 == Put(session_state, self.key, self.default_value)
    IN  /\ self.exists
        /\ pc # "raised"
        /\ session_state' = ss1
        /\ last' = Called("reset", "None")
        /\ UNCHANGED <<default_values, controlled_widgets, self, pc, captured,
                       wrote_in_scope>>

\* reset()
reset ==
    LET ss1 == Put(session_state, self.key, self.default_value)
    IN  /\ self.exists
        /\ pc # "raised"
        /\ session_state' = ss1
        /\ controlled_widgets' =
             update_trigger_fields_session_state(controlled_widgets, ss1, self)
        /\ captured' = Capture(ss1, self.trigger_fields)
        /\ last' = Called("reset", "None")
        /\ UNCHANGED <<default_values, self, pc, wrote_in_scope>>

\* a direct call of has_triggered() by the page script, outside the block
call_has_triggered ==
    /\ self.exists
    /\ pc = "idle"
    /\ last' = Called("has_triggered", has_triggered(self, session_state, controlled_widgets))
    /\ UNCHANGED <<session_state, default_values, controlled_widgets, self, pc,
                   captured, wrote_in_scope>>

\* __enter__ that calls reset() when triggered, recapturing the snapshot
enter_with_reset ==
    LET r == has_triggered(self, session_state, controlled_widgets)
        ss1 == IF r = "True" THEN Put(session_state, self.key, self.default_value)
               ELSE session_state
    IN  /\ self.exists
        /\ pc = "idle"
        /\ last' = Called("__enter__", r)
        /\ session_state' = ss1
        /\ controlled_widgets' =
             IF r = "True"
             THEN update_trigger_fields_session_state(controlled_widgets, ss1, self)
             ELSE controlled_widgets
        /\ captured' = IF r = "True" THEN Capture(ss1, self.trigger_fields) ELSE captured
        /\ pc' = IF r \in {"True", "False"} THEN "body" ELSE "idle"
        /\ wrote_in_scope' = IF r \in {"True", "False"} THEN FALSE ELSE wrote_in_scope
        /\ UNCHANGED <<default_values, self>>

\* __enter__: the "with" statement enters the block unless has_triggered raised
enter ==
    LET r == has_triggered(self, session_state, controlled_widgets)
    IN  /\ self.exists
        /\ pc = "idle"
        /\ last' = Called("__enter__", r)
        /\ session_state' =
             IF r = "True" THEN Put(session_state, self.key, self.default_value)
             ELSE session_state
        /\ pc' = IF r \in {"True", "False"} THEN "body" ELSE "idle"
        /\ wrote_in_scope' = IF r \in {"True", "False"} THEN FALSE ELSE wrote_in_scope
        /\ UNCHANGED <<default_values, controlled_widgets, self, captured>>

\* the block's body raises (streamlit_app.py reads w.widget_key, which the
\* class does not define)
body_raises ==
    /\ pc = "body"
    /\ pc' = "raised"
    /\ last' = NoCall
    /\ UNCHANGED <<session_state, default_values, controlled_widgets, self,
                   captured, wrote_in_scope>>

\* what __exit__ returns: None, which is falsy, so a pending error is re-raised
exit_suppresses == FALSE

\* __exit__ that leaves the stored snapshot as it is
exit_without_refresh ==
    /\ pc \in {"body", "raised"}
    /\ captured' = Capture(session_state, self.trigger_fields)
    /\ last' = Called("__exit__", IF pc = "raised" /\ ~exit_suppresses THEN "AttributeError" ELSE "None")
    /\ pc' = "idle"
    /\ UNCHANGED <<session_state, default_values, controlled_widgets, self,
                   wrote_in_scope>>

\* __exit__ that refreshes the snapshot only when the body raised nothing
exit_skips_on_error ==
    /\ pc \in {"body", "raised"}
    /\ controlled_widgets' =
         IF pc = "raised" THEN controlled_widgets
         ELSE update_trigger_fields_session_state(controlled_widgets, session_state, self)
    /\ captured' = IF pc = "raised" THEN captured
                   ELSE Capture(session_state, self.trigger_fields)
    /\ last' = Called("__exit__", IF pc = "raised" /\ ~exit_suppresses THEN "AttributeError" ELSE "None")
    /\ pc' = "idle"
    /\ UNCHANGED <<session_state, default_values, self, wrote_in_scope>>

\* __exit__(exc_type, exc_value, traceback)
exit ==
    /\ pc \in {"body", "raised"}
    /\ controlled_widgets' =
         update_trigger_fields_session_state(controlled_widgets, session_state, self)
    /\ captured' = Capture(session_state, self.trigger_fields)
    /\ last' = Called("__exit__", IF pc = "raised" /\ ~exit_suppresses THEN "AttributeError" ELSE "None")
    /\ pc' = "idle"
    /\ UNCHANGED <<session_state, default_values, self, wrote_in_scope>>

\* the UI stores a widget's value under its key (st.text_input(..., key=k)),
\* between executions or while the page script runs
ui_write(k, v) ==
    /\ pc # "raised"
    /\ session_state' = Put(session_state, k, v)
    /\ wrote_in_scope' = (wrote_in_scope \/ (pc = "body" /\ self.exists /\ k = self.key))
    /\ last' = NoCall
    /\ UNCHANGED <<default_values, controlled_widgets, self, pc, captured>>

\* the host drops a key from the session mapping (del st.session_state[k])
session_delete(k) ==
    /\ pc # "raised"
    /\ Contains(session_state, k)
    /\ session_state' = Put(session_state, k, Absent)
    /\ last' = NoCall
    /\ UNCHANGED <<default_values, controlled_widgets, self, pc, captured,
                   wrote_in_scope>>

Next ==
    \/ \E k \in WidgetKeys, d \in Defaults, tf \in TriggerFieldArgs,
          fn \in {NoFunc} \cup TriggerFuncs : construct(k, d, tf, fn)
    \/ \E tf \in TriggerFieldArgs \ {NoFields} : set_trigger_fields(tf)
    \/ \E fn \in TriggerFuncs : set_trigger_func(fn)
    \/ reset
    \/ call_has_triggered
    \/ enter
    \/ body_raises
    \/ exit
    \/ \E k \in Keys, v \in Values : ui_write(k, v)
    \/ \E k \in Keys : session_delete(k)

Spec == Init /\ [][Next]_vars

\* the widget's operations and the UI's writes alone: the host never drops a key
NextWidgetOps ==
    \/ \E k \in WidgetKeys, d \in Defaults, tf \in TriggerFieldArgs,
          fn \in {NoFunc} \cup TriggerFuncs : construct(k, d, tf, fn)
    \/ \E tf \in TriggerFieldArgs \ {NoFields} : set_trigger_fields(tf)
    \/ \E fn \in TriggerFuncs : set_trigger_func(fn)
    \/ reset
    \/ call_has_triggered
    \/ enter
    \/ body_raises
    \/ exit
    \/ \E k \in Keys, v \in Values : ui_write(k, v)

SpecWidgetOps == Init /\ [][NextWidgetOps]_vars
\* ------------------------------------------------------------ properties
\* the instance detects triggers by its fields: no predicate, a list given
FieldBased ==
    self.exists /\ self.trigger_func = NoFunc /\ ~self.trigger_fields.none
\* the keys of the instance's trigger_fields
TF == Range(fields_or_empty(self.trigger_fields))
\* what st.session_state.get returns for a recorded entry
AsRead(v) == IF v = Absent THEN NoneVal ELSE v
\* the stored snapshot was last taken from the list the instance now holds
SnapshotFromOwnList == DOMAIN captured = TF
\* some trigger field reads differently now than when the snapshot was taken
\* (reset, exit, seeding or set_trigger_fields, whichever came last)
ChangedSinceCapture ==
    \E f \in TF : Get(session_state, f) # AsRead(captured[f])
\* the stored snapshot of the instance's key
Snapshot == trigger_field_values(controlled_widgets, self)
\* the instance's trigger fields as the session reads now
CurrentFieldValues == [f \in TF |-> Get(session_state, f)]

\* a step of the constructor, with the arguments the new instance holds
ConstructStep ==
    /\ last'.call = "__init__"
    /\ construct(self'.key, self'.default_value, self'.trigger_fields,
                 self'.trigger_func)

\* C1: entering the block of a field-based widget whose snapshot was taken
\* from its own list (at the previous exit or at seeding), while a trigger
\* field reads differently than at that moment, makes has_triggered() true and
\* leaves default_value at the key, without reset() being called.
C1_ResetOnTriggerFieldChange ==
    [][(enter /\ FieldBased /\ SnapshotFromOwnList /\ ChangedSinceCapture)
         => (/\ last'.ret = "True"
             /\ pc' = "body"
             /\ session_state'[self.key] = self.default_value)]_vars

C1_Witness ==
    /\ last = Called("__enter__", "True")
    /\ pc = "body"
    /\ FieldBased /\ SnapshotFromOwnList
    /\ Cardinality(TF) = 2
    /\ Get(session_state, "field1") # AsRead(captured["field1"])
    /\ Get(session_state, "field2") = AsRead(captured["field2"])
    /\ session_state[self.key] = self.default_value

\* C2: when the controlled key is not a trigger field and the UI wrote the
\* controlled value inside the last block, a following check (has_triggered()
\* or block entry) with no trigger field changed since the snapshot returns
\* false and leaves the session, the written value included, as it is.
C2_NoFalseTriggerFromOwnWrite ==
    [][((enter \/ call_has_triggered)
          /\ wrote_in_scope /\ FieldBased /\ self.key \notin TF
          /\ SnapshotFromOwnList /\ ~ChangedSinceCapture)
         => (last'.ret = "False" /\ session_state' = session_state)]_vars

C2_Witness ==
    /\ last = Called("has_triggered", "False")
    /\ wrote_in_scope /\ FieldBased /\ self.key \notin TF /\ TF # {}
    /\ SnapshotFromOwnList /\ ~ChangedSinceCapture
    /\ session_state[self.key] = NoneVal

\* C3: for a field-based widget whose snapshot was taken from its own list,
\* has_triggered() returns true exactly when some trigger field reads
\* differently from the value the snapshot holds for it; so false when nothing
\* changed and false for the empty list.
C3_FieldBasedDetection ==
    (last.call = "has_triggered" /\ FieldBased /\ SnapshotFromOwnList)
      => /\ last.ret \in {"True", "False"}
         /\ (last.ret = "True") <=>
              (\E f \in TF : Get(session_state, f) # Snapshot[f])
         /\ (TF = {} => last.ret = "False")

C3_Witness ==
    /\ last = Called("has_triggered", "True")
    /\ FieldBased /\ SnapshotFromOwnList
    /\ Cardinality(TF) = 2
    /\ Get(session_state, "field1") = Snapshot["field1"]
    /\ Get(session_state, "field2") # Snapshot["field2"]

\* C4: with a trigger_func set, has_triggered() ends exactly as the predicate
\* ends, whatever trigger_fields and the snapshot are.
C4_PredicatePriority ==
    (last.call = "has_triggered" /\ self.trigger_func # NoFunc)
      => last.ret = call_trigger_func(self.trigger_func, session_state)

C4_Witness ==
    /\ last = Called("has_triggered", "False")
    /\ self.trigger_func # NoFunc
    /\ ~self.trigger_fields.none
    /\ \E f \in DOMAIN Snapshot : Get(session_state, f) # Snapshot[f]

\* C5: with neither trigger_func nor trigger_fields, has_triggered() returns
\* true, and every block entry leaves default_value at the key.
C5_FailOpen ==
    (last.call \in {"has_triggered", "__enter__"}
       /\ self.trigger_func = NoFunc /\ self.trigger_fields.none)
      => /\ last.ret = "True"
         /\ (last.call = "__enter__"
               => pc = "body" /\ session_state[self.key] = self.default_value)

C5_Witness ==
    /\ last = Called("__enter__", "True")
    /\ self.trigger_func = NoFunc /\ self.trigger_fields.none
    /\ session_state[self.key] = self.default_value
\* C6: right after reset() the key holds default_value and the stored
\* snapshot maps each of the instance's trigger fields to the value the session
\* reads for it at that moment, so has_triggered() on a field-based widget
\* returns false there.
C6_ResetPostcondition ==
    (last.call = "reset")
      => /\ session_state[self.key] = self.default_value
         /\ Snapshot = CurrentFieldValues
         /\ (FieldBased
               => has_triggered(self, session_state, controlled_widgets) = "False")

C6_Witness ==
    /\ last.call = "reset"
    /\ FieldBased
    /\ Cardinality(TF) = 2
    /\ session_state["field1"] = "reset"
    /\ session_state["field2"] = Absent
    /\ pc = "body"

\* C7: constructing a widget for a key that is in neither the session mapping
\* nor the controlled-widgets registry sets the key to default_value and seeds
\* the snapshot with the value the session then reads for every trigger field
\* (the empty snapshot when trigger_fields is unset).
C7_FreshConstruction ==
    [][(/\ ConstructStep
        /\ ~Contains(session_state, self'.key)
        /\ ~(controlled_widgets.exists /\ self'.key \in DOMAIN controlled_widgets.d))
         => (/\ session_state'[self'.key] = self'.default_value
             /\ controlled_widgets'.exists
             /\ self'.key \in DOMAIN controlled_widgets'.d
             /\ controlled_widgets'.d[self'.key] =
                  [f \in Range(fields_or_empty(self'.trigger_fields)) |->
                     Get(session_state', f)]
             /\ (self'.trigger_fields.none
                   => controlled_widgets'.d[self'.key] = EmptyMap))]_vars

C7_Witness ==
    /\ last = Constructed("fresh")
    /\ session_state[self.key] = self.default_value
    /\ Cardinality(TF) = 2
    /\ Snapshot = CurrentFieldValues
    /\ Snapshot["field1"] = "reset"

\* C8: constructing a widget for a key that already has a registry entry
\* leaves that snapshot as it is, so a field change made since the snapshot was
\* taken is still reported by has_triggered() on the new instance.
C8_NoReseedOnReconstruction ==
    [][(/\ ConstructStep
        /\ controlled_widgets.exists /\ self'.key \in DOMAIN controlled_widgets.d)
         => (/\ controlled_widgets'.d[self'.key] = controlled_widgets.d[self'.key]
             /\ ((FieldBased' /\ SnapshotFromOwnList' /\ ChangedSinceCapture')
                   => has_triggered(self', session_state', controlled_widgets')
                        = "True"))]_vars

C8_Witness ==
    /\ last = Constructed("kept")
    /\ FieldBased /\ SnapshotFromOwnList /\ ChangedSinceCapture
    /\ Snapshot # CurrentFieldValues
    /\ has_triggered(self, session_state, controlled_widgets) = "True"

\* C9: block entry writes default_value at the key when has_triggered() is
\* true and nothing when it is not; the rest of the session and the stored
\* snapshot are as before entry in both cases.
C9_EntryTouchesOnlyValue ==
    [][enter
         => (/\ controlled_widgets' = controlled_widgets
             /\ session_state' =
                  IF last'.ret = "True"
                  THEN Put(session_state, self.key, self.default_value)
                  ELSE session_state)]_vars

C9_Witness ==
    /\ last = Called("__enter__", "True")
    /\ pc = "body"
    /\ FieldBased /\ SnapshotFromOwnList
    /\ session_state[self.key] = self.default_value
    /\ Snapshot # CurrentFieldValues

\* C10: every block exit, after a body that finished or a body that raised,
\* replaces the stored snapshot by the values the session reads for the
\* trigger fields at exit, leaves the session as it is, and lets the body's
\* error go on to the caller.
C10_ExitAlwaysRefreshes ==
    [][exit
         => (/\ controlled_widgets'.d[self.key] = CurrentFieldValues
             /\ session_state' = session_state
             /\ pc' = "idle"
             /\ last'.ret = IF pc = "raised" THEN "AttributeError" ELSE "None")]_vars

C10_Witness ==
    /\ last = Called("__exit__", "AttributeError")
    /\ pc = "idle"
    /\ Cardinality(TF) = 2
    /\ Snapshot = CurrentFieldValues
    /\ Snapshot["field1"] = "reset"
    /\ session_state[self.key] # self.default_value
\* C11: once a widget has been constructed for a key, every state reached
\* through the widget's operations (and the UI's writes) has a value at the
\* key, and right after a construction that found the key absent that value is
\* default_value.
C11_ValuePresent ==
    self.exists
      => /\ Contains(session_state, self.key)
         /\ (last.case = "fresh" => session_state[self.key] = self.default_value)

C11_Witness ==
    /\ last = Called("__exit__", "None")
    /\ self.exists
    /\ session_state[self.key] = NoneVal
    /\ session_state[self.key] # self.default_value
    /\ session_state["field1"] = Absent
\* what the session read, at the last snapshot, for the fields it was taken of
LastCaptureAsRead == [f \in DOMAIN captured |-> AsRead(captured[f])]

\* C12 as stated: the stored snapshot holds the trigger fields' values of the
\* most recent reset(), block exit or seeding, so no step of another call
\* changes it.
C12_SnapshotOnlyFromResetOrExit ==
    [][controlled_widgets' # controlled_widgets
         => last'.call \in {"__init__", "reset", "__exit__"}]_vars

\* C12, amended: the stored snapshot always holds the values the session read
\* at the most recent seeding, reset(), block exit or set_trigger_fields(), for
\* the trigger fields of that call, and only those four calls change it.
C12_SnapshotFreshness ==
    [][/\ (self'.exists => Snapshot' = LastCaptureAsRead')
       /\ (controlled_widgets' # controlled_widgets
             => last'.call \in {"__init__", "reset", "__exit__",
                                "set_trigger_fields"})]_vars

C12_Witness ==
    /\ last.call = "set_trigger_fields"
    /\ pc = "idle"
    /\ Cardinality(TF) = 2
    /\ Snapshot = LastCaptureAsRead
    /\ Snapshot["field1"] = "reset"
    /\ Snapshot["field2"] = NoneVal
\* a step of a call on the widget that changes the value an already-present
\* controlled key holds
ValueChangedByCall ==
    /\ last'.call # "none"
    /\ Contains(session_state, self'.key)
    /\ session_state'[self'.key] # session_state[self'.key]

\* C13 as stated: among the widget's operations only reset() changes the
\* value stored at an already-present key.
C13_OnlyResetMutates ==
    [][ValueChangedByCall => last'.call = "reset"]_vars

\* C13, amended: among the widget's operations only reset() and a block entry
\* whose has_triggered() returned true change the value stored at an
\* already-present key, and they change it to default_value; construction on a
\* present key, set_trigger_fields, set_trigger_func, has_triggered, an entry
\* that did not trigger and block exit leave it as it is.
C13_OnlyResetOrTriggeredEntryMutates ==
    [][ValueChangedByCall
         => (/\ (last'.call = "reset" \/ last' = Called("__enter__", "True"))
             /\ session_state'[self'.key] = self.default_value)]_vars

C13_Witness ==
    /\ last = Constructed("kept")
    /\ session_state[self.key] = NoneVal
    /\ FieldBased /\ SnapshotFromOwnList /\ ChangedSinceCapture
\* C14: for a field-based widget, a trigger field that was absent from the
\* session when the snapshot was taken and is present at the check, or present
\* then and absent now, makes has_triggered() return true, whatever value it
\* holds while present (None included).
C14_AbsentVersusPresent ==
    (/\ last.call = "has_triggered"
     /\ FieldBased /\ SnapshotFromOwnList
     /\ \E f \in TF : (captured[f] = Absent) # (session_state[f] = Absent))
      => last.ret = "True"
\* C15: for a widget without trigger_func, has_triggered() returns true
\* whenever a key of the instance's current trigger_fields holds a value
\* different from its snapshot value, a key the snapshot has no entry for
\* counting as changed once it holds a value; also when the snapshot was seeded
\* by an earlier construction with another list or none.  (Stated for the
\* trigger fields other than the controlled key.)
C15_DetectionFollowsInstanceFields ==
    (/\ last.call = "has_triggered"
     /\ self.trigger_func = NoFunc
     /\ \E f \in TF \ {self.key} :
           IF f \in DOMAIN Snapshot
           THEN Get(session_state, f) # Snapshot[f]
           ELSE Contains(session_state, f))
      => last.ret = "True"
\* C16: when a field-based widget whose controlled key is no trigger field
\* enters its block with a snapshot taken from its own list (at the previous
\* exit), entry overwrites the value only if some trigger field reads
\* differently than at that snapshot; with no field changed, after a reset as
\* after a stable execution, entry returns false and leaves the session as it
\* is.
C16_ResetOnlyOnChange ==
    [][(enter /\ FieldBased /\ self.key \notin TF /\ SnapshotFromOwnList)
         => (/\ (session_state' # session_state => ChangedSinceCapture)
             /\ (last'.ret = "True" <=> ChangedSinceCapture)
             /\ (~ChangedSinceCapture => pc' = "body"))]_vars

C16_Witness ==
    /\ last = Called("__enter__", "False")
    /\ pc = "body"
    /\ FieldBased /\ self.key \notin TF /\ SnapshotFromOwnList
    /\ Cardinality(TF) = 2
    /\ ~ChangedSinceCapture
    /\ session_state["field1"] = "reset"
    /\ session_state["field2"] = Absent
    /\ session_state[self.key] = NoneVal
\* C17: a construction for a key that already holds a value leaves that value
\* and records the new default_value in the default-values registry (after
\* every construction the entry is the newest instance's default_value); a
\* later reset() or triggered block entry on that instance writes that
\* default_value.
C17_LastDefaultWins ==
    [][/\ ConstructStep
            => (/\ default_values'.exists
                /\ self'.key \in DOMAIN default_values'.d
                /\ default_values'.d[self'.key] = self'.default_value
                /\ (Contains(session_state, self'.key)
                      => session_state'[self'.key] = session_state[self'.key]))
       /\ (reset \/ (enter /\ last'.ret = "True"))
            => (/\ session_state'[self.key] = self.default_value
                /\ session_state'[self.key] = default_values.d[self.key])]_vars

C17_Witness ==
    /\ last = Constructed("kept")
    /\ self.default_value = "reset"
    /\ default_values.d[self.key] = "reset"
    /\ session_state[self.key] = "initial value"
\* a step of set_trigger_fields, with the list the instance holds after it
SetTriggerFieldsStep ==
    /\ last'.call = "set_trigger_fields"
    /\ set_trigger_fields(self'.trigger_fields)

\* C18: set_trigger_fields(fields) leaves the instance with the new list and
\* the registry with a snapshot of exactly the new fields at the values the
\* session reads for them, changes nothing in the session even when an old or
\* a new trigger field has changed, and has_triggered() right after it on a
\* widget without trigger_func returns false.
C18_SetTriggerFields ==
    [][SetTriggerFieldsStep
         => (/\ ~self'.trigger_fields.none
             /\ controlled_widgets'.d[self.key] =
                  [f \in Range(self'.trigger_fields.list) |-> Get(session_state, f)]
             /\ session_state' = session_state
             /\ (self.trigger_func = NoFunc
                   => has_triggered(self', session_state', controlled_widgets')
                        = "False"))]_vars

C18_Witness ==
    /\ last.call = "set_trigger_fields"
    /\ FieldBased
    /\ TF = {"field2"}
    /\ Snapshot = CurrentFieldValues
    /\ session_state["field1"] = "reset"
    /\ session_state["field2"] = "reset"
    /\ session_state[self.key] = NoneVal
\* C19: once a widget has been constructed for a key the controlled-widgets
\* registry has an entry for it in every reachable state, so has_triggered()
\* and block entry of a widget without trigger_func never end in the lookup's
\* KeyError; has_triggered() on a field-based widget ends in it only against a
\* registry without the key's entry.
C19_SnapshotLookupNeverFails ==
    self.exists
      => /\ controlled_widgets.exists
         /\ self.key \in DOMAIN controlled_widgets.d
         /\ ((last.call \in {"has_triggered", "__enter__"}
                /\ self.trigger_func = NoFunc)
               => last.ret \in {"True", "False"})
         /\ (FieldBased
               => /\ has_triggered(self, session_state, controlled_widgets)
                       # "KeyError"
                  /\ has_triggered(self, session_state,
                                   [exists |-> TRUE, d |-> EmptyMap]) = "KeyError")

C19_Witness ==
    /\ last = Called("has_triggered", "True")
    /\ FieldBased
    /\ ~Contains(session_state, self.key)
    /\ TF = {"field1"}
    /\ DOMAIN Snapshot = {"field1", "field2"}
\* C20: when a block of a field-based widget exits while a trigger field reads
\* differently than at the snapshot (the field changed inside the block), exit
\* records the new value and leaves the session, the controlled value
\* included, as it is, so has_triggered() is false right after exit: the change
\* causes no reset, in this execution or the next.
C20_ChangeInsideScopeAbsorbed ==
    [][(exit /\ FieldBased /\ SnapshotFromOwnList /\ ChangedSinceCapture)
         => (/\ controlled_widgets'.d[self.key] = CurrentFieldValues
             /\ session_state' = session_state
             /\ has_triggered(self', session_state', controlled_widgets')
                  = "False")]_vars

\* in the block, the entry did not reset (the key holds a value other than
\* default_value that the UI did not write in this block) and a trigger field
\* now reads differently than at the snapshot
C20_Witness ==
    /\ pc = "body"
    /\ last = NoCall
    /\ FieldBased /\ self.key \notin TF /\ SnapshotFromOwnList
    /\ ChangedSinceCapture
    /\ ~wrote_in_scope
    /\ Contains(session_state, self.key)
    /\ session_state[self.key] # self.default_value
====
